---- MODULE Spec2Model ----
(***************************************************************************)
(* OAuth token lifecycle and authenticated request pipeline of the Zoho    *)
(* CRM client (src/src/utils/zoho-crm-client.ts), the Zoho Books client    *)
(* (src/sample-node-zbooks-mcp/src/utils/zoho-client.ts) and the CRM       *)
(* authorization-grant flow (OAuthHandler, GET /oauth/callback); the       *)
(* requests the tools of the two MCP servers build (src/src/server.ts,     *)
(* src/sample-node-zbooks-mcp/src/server-sse.ts) and the SSE connections   *)
(* of the Books server.                                                    *)
(*                                                                         *)
(* One behaviour follows one process running one of the two clients.       *)
(* Every `await` of the source is a point where other pending work may     *)
(* run, so every handler is cut at its awaits.  Time is in seconds.        *)
(*                                                                         *)
(* Spec     : a client (CRM or Books) serving one API method call at a     *)
(*            time.                                                        *)
(* SpecRace : a client (CRM or Books) serving concurrent API method calls. *)
(* SpecGrant: the CRM process serving authorization callbacks only.        *)
(* SpecBoot : the CRM process with its grant flow and restarts, one call   *)
(*            at a time.                                                   *)
(* SpecLive : Spec with weak fairness of the steps the process itself     *)
(*            guarantees.                                                  *)
(* SpecTools: a server executing tool invocations, up to the request each  *)
(*            hands to the client's pipeline.                              *)
(* SpecSse  : the Books server with SSE clients connecting, disconnecting  *)
(*            and posting.                                                 *)
(***************************************************************************)
EXTENDS Integers, FiniteSets, Sequences, TLC

\* ---- bounds of the model ----
MaxTime == 450
MaxCalls == 2
MaxResponses == 2
MaxText == 2
MaxConnections == 3

\* ---- values ----
\* accessToken: string | null = null  (null, undefined and '' are all falsy)
NoToken == 0
\* tokenExpiresAt: Date | null = null
NoDate == -1
\* config.zoho.refreshToken is '' when ZOHO_REFRESH_TOKEN is not set
NoRefresh == ""
\* the safety buffer subtracted from expires_in
Buffer == 300
\* the clock advances in steps of half a buffer
TickStep == Buffer \div 2
\* expires_in values the provider declares
TTLs == {450, 3600}
Calls == 1..MaxCalls
SerialCalls == {1}
EnvRefreshTokens == {NoRefresh, "rt_env"}
GrantRefreshToken == "rt_grant"

VARIABLES
  client,          \* "crm" or "books": the client class of this process
  now,             \* the clock: Date.now() / new Date()
  refreshToken,    \* config.zoho.refreshToken, read from the environment
  accessToken,     \* this.accessToken
  tokenExpiresAt,  \* this.tokenExpiresAt
  tokenFrom,       \* history: where accessToken was taken from:
                   \*   0 nothing yet, -1 the loaded file, n > 0 response n
  expiresFrom,     \* history: where tokenExpiresAt was taken from
  file,            \* tokens.json
  loadPc,          \* position of loadStoredTokens
  loadTokens,      \* local `tokens` of loadStoredTokens
  pc,              \* position of each API method call
  tokens,          \* local `tokens` (response.data) of refreshAccessToken
  tokenData,       \* local `tokenData` of updateEnvTokens
  thrown,          \* the error ensureValidToken threw in the call
  request,         \* the resource request dispatched for the call
  response,        \* what came back for that request
  result,          \* what the API method call returned to its caller
  caught,          \* the error the caller of the API method caught
  got,             \* history, kept until the call's request is dispatched:
                   \*   the access token the call's refresh obtained
  saved,           \* history, kept until the call's request is dispatched:
                   \*   how the call's credential-file write ended
  tokenCalls,      \* token-endpoint requests issued by the call
  inFlight,        \* token-endpoint requests of the call not yet answered
  nextId,          \* serial number of the provider's next token response
  refreshWrites,   \* history: the refresh writes of this process so far:
                   \*   "none", "ok" (all succeeded) or "failed" (one failed)
  bootFile,        \* history: tokens.json when the client was constructed
  served,          \* history: ensureValidToken has run since construction
  grantPc,         \* position of the GET /oauth/callback handler
  grantQuery,      \* req.query of the callback being handled
  exchanges,       \* code-exchange requests issued for that callback
  grantTokens,     \* local `tokens` of the callback handler
  grantData,       \* local `tokenData` of saveTokensToEnv
  rejected,        \* history: error.response of the token request the
                   \*   call's refresh saw rejected
  resourceCalls,   \* resource requests dispatched for the call
  invocation,      \* the tool invocation being executed: name and arguments
  outgoing,        \* the resource request the invoked API method built
  activeTransport, \* this.activeTransport of the Books SSE server
  sse,             \* state of each SSE connection requested by GET /sse
  handledBy        \* history: the transport that handled the last POST /sse

envVars == <<client, refreshToken>>
memVars == <<accessToken, tokenExpiresAt, tokenFrom, expiresFrom>>
loadVars == <<loadPc, loadTokens>>
callVars == <<pc, tokens, tokenData, thrown, request, result, tokenCalls,
              inFlight>>
noteVars == <<response, caught, got, saved>>
histVars == <<refreshWrites, bootFile, served>>
grantVars == <<grantPc, grantQuery, exchanges, grantTokens, grantData>>
tallyVars == <<rejected, resourceCalls>>
toolVars == <<invocation, outgoing>>
sseVars == <<activeTransport, sse, handledBy>>
frontVars == <<toolVars, sseVars>>
vars == <<envVars, now, memVars, file, loadVars, callVars, noteVars, nextId,
          grantVars, histVars, tallyVars, frontVars>>

\* ---- the credential file ----
Record(kind, rt, at, exp, atSrc, expSrc) ==
  [kind |-> kind, refresh_token |-> rt, access_token |-> at,
   expires_at |-> exp, tok_src |-> atSrc, exp_src |-> expSrc]
\* no tokens.json
Absent == Record("absent", NoRefresh, NoToken, NoDate, 0, 0)
\* tokens.json that JSON.parse rejects
Malformed == Record("malformed", NoRefresh, NoToken, NoDate, 0, 0)
\* echo '{}' > tokens.json
EmptyJson == Record("json", NoRefresh, NoToken, NoDate, 0, 0)

\* ---- token responses, requests and errors ----
Response(id, rt, at, ttl) ==
  [id |-> id, refresh_token |-> rt, access_token |-> at, expires_in |-> ttl]
\* expires_in of a body that has none
NoTtl == 0
\* a body with none of the token fields, such as an error envelope
NoResponse == Response(0, NoRefresh, NoToken, NoTtl)
\* req.query of GET /oauth/callback
Query(hasError, hasCode) == [error |-> hasError, code |-> hasCode]
NoQuery == Query(FALSE, FALSE)
NoRequest == [sent |-> FALSE, auth |-> NoToken]
NoError == [kind |-> "none", status |-> 0]
\* HTTP statuses of the resource endpoint: a 2xx one and an error one
Statuses == {200, 401}
\* parsed response bodies: an envelope with `data`, an envelope with only
\* `message`, one with neither (or an empty body), and the JSON value null
Bodies == {"data", "message", "empty", "null"}
HttpResponse(status, body) == [status |-> status, body |-> body]
\* error.response of a request that got no answer (network error, timeout)
NoHttpResponse == HttpResponse(0, "none")
HttpResponses == {HttpResponse(s, b) : s \in Statuses, b \in Bodies}
\* error.response of a rejected token request: the provider's error
\* envelope under a 4xx status, or no answer
TokenRejections == {HttpResponse(400, "message"), NoHttpResponse}
\* the answers followed over restarts: data, or no answer
BootResponses == {HttpResponse(200, "data"), NoHttpResponse}
\* validateStatus of axios
Is2xx(status) == status >= 200 /\ status < 300
\* error messages
Message(text, status) == [text |-> text, status |-> status]
NoMessage == Message("", 0)
\* data.message of the provider's error envelope
ProviderMessage == Message("provider message", 0)
\* `HTTP ${status} error`
HttpMessage(status) == Message("HTTP error", status)
\* error.message of the transport error
TransportMessage == Message("transport error", 0)
\* 'No data returned from ... API'
NoDataMessage == Message("No data returned", 0)
\* error.message axios gives a rejected request: 'Request failed with
\* status code ...' for an answer, the transport's message without one
AxiosMessage(resp) ==
  IF resp # NoHttpResponse THEN Message("Request failed with status code",
                                         resp.status)
                           ELSE TransportMessage
\* `Failed to refresh access token: ${errorMessage}`
RefreshFailedMessage(error) ==
  Message("Failed to refresh access token", error.message)
\* message of the error ensureValidToken threw
ThrownMessage(error) == Message(error.kind, 0)
\* what reaches the caller of an API method
Caught(kind, status, message) ==
  [kind |-> kind, status |-> status, message |-> message]
NothingCaught == Caught("none", 0, NoMessage)
\* new ZohoApiClientError(message, statusCode = 500)
ZohoApiClientError(message, status) ==
  Caught("ZohoApiClientError", status, message)
\* reading a property of null
TypeError == Caught("TypeError", 0, NoMessage)
\* what the rejected handler of the response interceptor is given
AxiosError(resp, message) == [response |-> resp, message |-> message]
\* 'No valid access token or refresh token available...', 401
AuthRequired == [kind |-> "AuthRequired", status |-> 401]
\* `Failed to refresh access token: ...`, 401
RefreshFailed == [kind |-> "RefreshFailed", status |-> 401]

\* ---- pure helpers ----
\* a validity test that takes the safety buffer off a second time
TokenValid_DoubleBuffer(at, exp, t) ==
  at # NoToken /\ exp # NoDate /\ t + Buffer < exp

\* this.accessToken && this.tokenExpiresAt && now < this.tokenExpiresAt
TokenValid(at, exp, t) == at # NoToken /\ exp # NoDate /\ t < exp

\* an expiry that forgets the safety buffer
ExpiryOf_NoBuffer(t, ttl) == t + ttl

\* new Date(Date.now() + (tokens.expires_in - 300) * 1000)
ExpiryOf(t, ttl) == t + (ttl - Buffer)

\* new Date(Date.now() + (tokens.expires_in * 1000))
GrantExpiryOf(t, ttl) == t + ttl

\* the rejected handler of the response interceptor
OnRejected(error) ==
  IF error.response # NoHttpResponse
    THEN IF error.response.body = "null"
           THEN TypeError
           ELSE ZohoApiClientError(
                  IF error.response.body = "message"
                    THEN ProviderMessage
                    ELSE HttpMessage(error.response.status),
                  error.response.status)
    ELSE ZohoApiClientError(error.message, 500)

\* what an API method makes of a 2xx body: the CRM methods read
\* response.data of what get() returned and throw when it is falsy, the
\* Books methods return what get() returned
MethodOutcome(cl, body) ==
  IF cl = "books" THEN NothingCaught
  ELSE IF body = "null" THEN TypeError
  ELSE IF body # "data" THEN ZohoApiClientError(NoDataMessage, 500)
  ELSE NothingCaught

\* if (config.zoho.refreshToken); the Books client has no such test
RefreshTokenAvailable == client = "books" \/ refreshToken # NoRefresh

\* ---- tool arguments and the resource requests built from them ----
\* config.zoho.organizationId
OrganizationId == "org_configured"
\* an optional value: <<>> is undefined, <<v>> is the value v
Undefined == <<>>
\* obj[key] of an object: undefined when the key is absent
Prop(obj, key) == IF key \in DOMAIN obj THEN <<obj[key]>> ELSE Undefined
\* the object { key: value }, or {} when the value is undefined
Field(key, value) == IF value = Undefined THEN <<>> ELSE key :> value[1]
\* a destructuring default `key = d`: it replaces undefined only
OrDefault(value, d) == IF value = Undefined THEN d ELSE value[1]
\* `value || d` of an optional number: undefined and 0 are falsy
NumberOr(value, d) == IF value = Undefined \/ value[1] = 0 THEN d ELSE value[1]
\* truthiness of an optional string
Truthy(value) == value # Undefined /\ value[1] # ""
\* `${value}` of an optional string
Interpolate(value) == IF value = Undefined THEN "undefined" ELSE value[1]
\* Math.min
Min(a, b) == IF a < b THEN a ELSE b
\* fields.join(',')
RECURSIVE Join(_)
Join(fields) ==
  IF fields = <<>> THEN ""
  ELSE IF Len(fields) = 1 THEN fields[1]
  ELSE fields[1] \o "," \o Join(Tail(fields))

\* sort_order texts are sequences of characters
Chars == {"d", "D", "a", "x"}
ShortTexts == UNION {[1..n -> Chars] : n \in 0..MaxText}
Text_a == <<"a">>
Text_d == <<"d">>
Text_ascending == <<"a", "s", "c", "e", "n", "d", "i", "n", "g">>
Text_descending == <<"d", "e", "s", "c", "e", "n", "d", "i", "n", "g">>
LongTexts ==
  {Text_ascending, Text_descending,
   <<"D", "E", "S", "C", "E", "N", "D", "I", "N", "G">>,
   <<"D", "e", "s", "c", "e", "n", "d", "i", "n", "g">>,
   <<"d", "e", "s", "c", "e", "n", "d", "i", "n", "G">>,
   <<"d", "e", "s", "c">>,
   <<"d", "e", "s", "c", "e", "n", "d", "i", "n", "g", "s">>}
\* String.prototype.toLowerCase over the letters in use
LowerOf ==
  ("A" :> "a") @@ ("C" :> "c") @@ ("D" :> "d") @@ ("E" :> "e") @@
  ("G" :> "g") @@ ("I" :> "i") @@ ("N" :> "n") @@ ("S" :> "s")
toLowerCase(text) ==
  [i \in DOMAIN text |->
     IF text[i] \in DOMAIN LowerOf THEN LowerOf[text[i]] ELSE text[i]]

\* a normalizer that compares without lowering the case
normalizeSortOrder_CaseSensitive(sortOrder) ==
  IF sortOrder = Undefined \/ sortOrder[1] = <<>> THEN "A"
  ELSE IF sortOrder[1] \in {Text_d, Text_descending} THEN "D"
  ELSE "A"

\* normalizeSortOrder(sortOrder?: SortOrder): 'A' | 'D'
normalizeSortOrder(sortOrder) ==
  IF sortOrder = Undefined \/ sortOrder[1] = <<>> THEN "A"
  ELSE LET lower == toLowerCase(sortOrder[1])
       IN  CASE lower = Text_a -> "A"
             [] lower = Text_ascending -> "A"
             [] lower = Text_d -> "D"
             [] lower = Text_descending -> "D"
             [] OTHER -> "A"

\* an HTTP request to a resource endpoint; the endpoint is its sequence of
\* path segments
Request(method, endpoint, params, data) ==
  [method |-> method, endpoint |-> endpoint, params |-> params,
   data |-> data]
NoData == <<>>
NoOutgoing == Request("none", <<>>, <<>>, NoData)

\* a get that sends the request with another method
CrmGet_Posts(endpoint, params) == Request("POST", endpoint, params, NoData)

\* ZohoCRMClient.get: the params go out as they are
CrmGet(endpoint, params) == Request("GET", endpoint, params, NoData)

\* a Books request without the organization id
WithOrganization_Missing(params) == params

\* { organization_id: config.zoho.organizationId, ...params }
WithOrganization(params) == params @@ ("organization_id" :> OrganizationId)

\* ZohoBooksClient.get / post / put / _delete
BooksGet(endpoint, params) ==
  Request("GET", endpoint, WithOrganization(params), NoData)
BooksPost(endpoint, data, params) ==
  Request("POST", endpoint, WithOrganization(params), data)
BooksPut(endpoint, data, params) ==
  Request("PUT", endpoint, WithOrganization(params), data)
BooksDelete(endpoint, params) ==
  Request("DELETE", endpoint, WithOrganization(params), NoData)

\* a searchRecords that sends per_page as given
searchRecords_NoClamp(params) ==
  LET page == OrDefault(Prop(params, "page"), 1)
      per_page == OrDefault(Prop(params, "per_page"), 25)
  IN  CrmGet(<<params.module>>, [page |-> page, per_page |-> per_page])

\* ZohoCRMClient.searchRecords up to its get()
searchRecords(params) ==
  LET page == OrDefault(Prop(params, "page"), 1)
      per_page == OrDefault(Prop(params, "per_page"), 25)
      sort_order == OrDefault(Prop(params, "sort_order"), "asc")
      criteria == Prop(params, "criteria")
      sort_by == Prop(params, "sort_by")
      fields == Prop(params, "fields")
      apiParams ==
        [page |-> page, per_page |-> Min(per_page, 200)]
        @@ (IF Truthy(criteria) THEN "criteria" :> criteria[1] ELSE <<>>)
        @@ (IF Truthy(sort_by)
              THEN ("sort_by" :> sort_by[1]) @@ ("sort_order" :> sort_order)
              ELSE <<>>)
        @@ (IF fields # Undefined /\ Len(fields[1]) > 0
              THEN "fields" :> Join(fields[1]) ELSE <<>>)
  IN  CrmGet(<<params.module>>, apiParams)

\* ZohoCRMClient.getRecord up to its get()
getRecord(params) ==
  LET fields == Prop(params, "fields")
  IN  CrmGet(<<Interpolate(Prop(params, "module")),
               Interpolate(Prop(params, "record_id"))>>,
             IF fields # Undefined /\ Len(fields[1]) > 0
               THEN "fields" :> Join(fields[1]) ELSE <<>>)

\* ZohoCRMClient.listModules up to its get()
listModules(params) ==
  LET type == OrDefault(Prop(params, "type"), "all")
  IN  CrmGet(<<"settings", "modules">>,
             IF type # "all" THEN "type" :> type ELSE <<>>)

\* ZohoCRMClient.getModuleFields up to its get()
getModuleFields(params) ==
  CrmGet(<<"settings", "fields">>, Field("module", Prop(params, "module")))

\* ZohoCRMClient.testConnection up to its get()
CrmTestConnection == CrmGet(<<"users?type=CurrentUser">>, Undefined)

\* ...(params.key && { key: params.key }) for each of the keys, the keys
\* in notAll also asking params.key !== 'all'
Filters(params, keys, notAll) ==
  [k \in {k \in keys : /\ Truthy(Prop(params, k))
                       /\ (k \in notAll => params[k] # "all")} |-> params[k]]

\* the body shared by listInvoices, listContacts, listItems,
\* listSalesOrders and listExpenses up to their get()
List(endpoint, params, keys, notAll) ==
  BooksGet(endpoint,
    [page |-> NumberOr(Prop(params, "page"), 1),
     per_page |-> NumberOr(Prop(params, "per_page"), 25),
     sort_order |-> normalizeSortOrder(Prop(params, "sort_order"))]
    @@ Filters(params, keys, notAll))

listInvoices(params) ==
  List(<<"invoices">>, params,
       {"customer_id", "status", "date_start", "date_end", "search_text",
        "sort_column"}, {})
listContacts(params) ==
  List(<<"contacts">>, params,
       {"contact_type", "status", "search_text", "sort_column"},
       {"contact_type", "status"})
listItems(params) ==
  List(<<"items">>, params,
       {"search_text", "status", "item_type", "sort_column"},
       {"status", "item_type"})
listSalesOrders(params) ==
  List(<<"salesorders">>, params,
       {"customer_id", "status", "date_start", "date_end", "search_text",
        "sort_column"}, {})
listExpenses(params) ==
  List(<<"expenses">>, params,
       {"vendor_id", "customer_id", "status", "date_start", "date_end",
        "search_text", "sort_column"}, {})
\* getInvoice, getContact, getItem, getSalesOrder, getExpense
Get(collection, id) == BooksGet(<<collection, Interpolate(id)>>, Undefined)
\* createInvoice, createContact, createItem, createExpense
Create(collection, data) == BooksPost(<<collection>>, data, Undefined)
\* updateItem
updateItem(itemId, itemData) ==
  BooksPut(<<"items", Interpolate(itemId)>>, itemData, Undefined)
\* ZohoBooksClient.testConnection up to its get()
BooksTestConnection == BooksGet(<<"organizations", "me">>, Undefined)

\* ---- the tools ----
\* a tool invocation, or a direct call of an API method
Invocation(via, name, args, state) ==
  [via |-> via, name |-> name, args |-> args, state |-> state]
NoInvocation == Invocation("none", "none", <<>>, "idle")

\* the zod schemas of the CRM tools: whether the arguments pass, and what
\* execute receives (defaults filled in, unknown keys stripped)
IsOneOf(value, allowed) == value = Undefined \/ value[1] \in allowed
SearchRecordsValid(args) ==
  /\ "module" \in DOMAIN args
  /\ ("page" \in DOMAIN args => args.page >= 1)
  /\ IsOneOf(Prop(args, "per_page"), 1..200)
  /\ IsOneOf(Prop(args, "sort_order"), {"asc", "desc"})
SearchRecordsParsed(args) ==
  [module |-> args.module,
   page |-> OrDefault(Prop(args, "page"), 1),
   per_page |-> OrDefault(Prop(args, "per_page"), 25),
   sort_order |-> OrDefault(Prop(args, "sort_order"), "asc")]
  @@ Field("criteria", Prop(args, "criteria"))
  @@ Field("sort_by", Prop(args, "sort_by"))
  @@ Field("fields", Prop(args, "fields"))
GetRecordValid(args) == {"module", "record_id"} \subseteq DOMAIN args
GetRecordParsed(args) ==
  [module |-> args.module, record_id |-> args.record_id]
  @@ Field("fields", Prop(args, "fields"))
ListModulesValid(args) ==
  IsOneOf(Prop(args, "type"), {"all", "custom", "standard"})
ListModulesParsed(args) == [type |-> OrDefault(Prop(args, "type"), "all")]
GetModuleFieldsValid(args) == "module" \in DOMAIN args
GetModuleFieldsParsed(args) == [module |-> args.module]

\* the request a CRM tool sends: server.addTool(...) of each tool
CrmToolRequest(name, args) ==
  CASE name = "search_records" ->
         IF SearchRecordsValid(args)
           THEN searchRecords(SearchRecordsParsed(args)) ELSE NoOutgoing
    [] name = "get_record" ->
         IF GetRecordValid(args)
           THEN getRecord(GetRecordParsed(args)) ELSE NoOutgoing
    [] name = "list_modules" ->
         IF ListModulesValid(args)
           THEN listModules(ListModulesParsed(args)) ELSE NoOutgoing
    [] name = "get_module_fields" ->
         IF GetModuleFieldsValid(args)
           THEN getModuleFields(GetModuleFieldsParsed(args)) ELSE NoOutgoing
    [] name = "health_check" -> CrmTestConnection

\* handleCreateInvoice: a line_items string goes through JSON.parse, which
\* throws on "oops" and yields an empty array on "[]"
CreateInvoiceData(args) ==
  IF "line_items" \in DOMAIN args
    THEN [args EXCEPT !.line_items = <<>>] ELSE args

\* the request a Books tool sends: the switch of the CallTool handler and
\* the handle... method of each tool, which hand args over unvalidated
BooksToolRequest(name, args) ==
  CASE name = "list_invoices_tool" -> listInvoices(args)
    [] name = "list_contacts_tool" -> listContacts(args)
    [] name = "list_expenses_tool" -> listExpenses(args)
    [] name = "list_items_tool" -> listItems(args)
    [] name = "list_sales_orders_tool" -> listSalesOrders(args)
    [] name = "get_invoice_tool" -> Get("invoices", Prop(args, "invoice_id"))
    [] name = "get_contact_tool" -> Get("contacts", Prop(args, "contact_id"))
    [] name = "get_expense_tool" -> Get("expenses", Prop(args, "expense_id"))
    [] name = "get_item_tool" -> Get("items", Prop(args, "item_id"))
    [] name = "get_sales_order_tool" ->
         Get("salesorders", Prop(args, "sales_order_id"))
    [] name = "create_invoice_tool" ->
         IF Prop(args, "line_items") = <<"oops">>
           THEN NoOutgoing
           ELSE Create("invoices", CreateInvoiceData(args))
    [] name = "create_expense_tool" -> Create("expenses", args)
    [] name = "create_item_tool" -> Create("items", args)
    [] name = "update_item_tool" -> updateItem(Prop(args, "item_id"), args)
    [] name \in {"test_connection", "health_check"} -> BooksTestConnection

\* the request an invocation sends
RequestOf(cl, inv) ==
  IF cl = "crm"
    THEN IF inv.via = "method" THEN searchRecords(inv.args)
         ELSE CrmToolRequest(inv.name, inv.args)
    ELSE BooksToolRequest(inv.name, inv.args)

\* ---- the arguments followed ----
Optional(values) == {Undefined} \cup {<<v>> : v \in values}
OtherOrganization == "org_other"
SearchArgs ==
  {("module" :> "Leads") @@ Field("page", p) @@ Field("per_page", n)
     @@ Field("criteria", cr) @@ Field("sort_by", sb)
     @@ Field("sort_order", so) @@ Field("fields", f) :
   p \in Optional({0, 1, 3}), n \in Optional({10, 200, 201, 500}),
   cr \in Optional({"Email:a"}), sb \in Optional({"Name"}),
   so \in Optional({"desc"}), f \in Optional({<<>>, <<"id", "Email">>})}
GetRecordArgs ==
  {Field("module", m) @@ Field("record_id", r) @@ Field("fields", f) :
   m \in {<<"Leads">>}, r \in Optional({"r1"}),
   f \in Optional({<<>>, <<"id", "Email">>})}
ListModulesArgs == {Field("type", t) : t \in Optional({"all", "custom", "x"})}
GetModuleFieldsArgs == {Field("module", m) : m \in Optional({"Leads"})}
CrmInvocations ==
  {Invocation("method", "searchRecords", a, "pending") : a \in SearchArgs}
  \cup {Invocation("tool", "search_records", a, "pending") : a \in SearchArgs}
  \cup {Invocation("tool", "get_record", a, "pending") : a \in GetRecordArgs}
  \cup {Invocation("tool", "list_modules", a, "pending") :
          a \in ListModulesArgs}
  \cup {Invocation("tool", "get_module_fields", a, "pending") :
          a \in GetModuleFieldsArgs}
  \cup {Invocation("tool", "health_check", <<>>, "pending")}

SortTexts == ShortTexts \cup LongTexts
\* arguments of the list tools: the paging and filter arguments in all
\* combinations, and every sort_order text with and without a page
ListArgs ==
  {Field("page", p) @@ Field("page_size", s) @@ Field("per_page", n)
     @@ Field("status", st) @@ Field("organization_id", org) :
   p \in Optional({0, 2}), s \in Optional({10, 50}), n \in Optional({100}),
   st \in Optional({"all", "sent"}), org \in Optional({OtherOrganization})}
  \cup {Field("page", p) @@ Field("sort_order", o) :
          p \in Optional({2}), o \in Optional(SortTexts)}
IdArgs(key) ==
  {Field(key, id) @@ Field("organization_id", org) :
   id \in Optional({"id1"}), org \in Optional({OtherOrganization})}
DataArgs ==
  {("name" :> "n") @@ Field("item_id", id) @@ Field("line_items", li)
     @@ Field("organization_id", org) :
   id \in Optional({"id1"}), li \in Optional({"[]", "oops"}),
   org \in Optional({OtherOrganization})}
ListTools ==
  {"list_invoices_tool", "list_contacts_tool", "list_expenses_tool",
   "list_items_tool", "list_sales_orders_tool"}
GetTools ==
  [get_invoice_tool |-> "invoice_id", get_contact_tool |-> "contact_id",
   get_expense_tool |-> "expense_id", get_item_tool |-> "item_id",
   get_sales_order_tool |-> "sales_order_id"]
DataTools ==
  {"create_invoice_tool", "create_expense_tool", "create_item_tool",
   "update_item_tool"}
BooksInvocations ==
  {Invocation("tool", t, a, "pending") : t \in ListTools, a \in ListArgs}
  \cup UNION {{Invocation("tool", t, a, "pending") : a \in IdArgs(GetTools[t])}
                : t \in DOMAIN GetTools}
  \cup {Invocation("tool", t, a, "pending") : t \in DataTools, a \in DataArgs}
  \cup {Invocation("tool", t, <<>>, "pending") :
          t \in {"test_connection", "health_check"}}
Invocations(cl) == IF cl = "crm" THEN CrmInvocations ELSE BooksInvocations

IdleTools == invocation = NoInvocation /\ outgoing = NoOutgoing

\* ---- the SSE connections of the Books server ----
Connections == 1..MaxConnections
\* private activeTransport: SSEServerTransport | null = null
NoTransport == 0
\* the transport POST /sse creates when there is no active one
OnDemand == -1
IdleSse ==
  /\ activeTransport = NoTransport
  /\ sse = [k \in Connections |-> "idle"]
  /\ handledBy = NoTransport

IdleCalls ==
  /\ pc = [c \in Calls |-> "idle"]
  /\ tokens = [c \in Calls |-> NoResponse]
  /\ tokenData = [c \in Calls |-> Absent]
  /\ thrown = [c \in Calls |-> NoError]
  /\ request = [c \in Calls |-> NoRequest]
  /\ result = [c \in Calls |-> "none"]
  /\ tokenCalls = [c \in Calls |-> 0]
  /\ inFlight = [c \in Calls |-> 0]
  /\ response = [c \in Calls |-> NoHttpResponse]
  /\ caught = [c \in Calls |-> NothingCaught]
  /\ got = [c \in Calls |-> NoToken]
  /\ saved = [c \in Calls |-> "none"]
  /\ rejected = [c \in Calls |-> NoHttpResponse]
  /\ resourceCalls = [c \in Calls |-> 0]

\* the client after `new ZohoCRMClient()` / `new ZohoBooksClient()`
InitClient ==
  /\ client \in {"crm", "books"}
  /\ now = 0
  /\ refreshToken \in EnvRefreshTokens
  /\ client = "books" => refreshToken # NoRefresh
  /\ accessToken = NoToken
  /\ tokenExpiresAt = NoDate
  /\ tokenFrom = 0
  /\ expiresFrom = 0
  /\ file \in {Absent, Malformed, EmptyJson}
  /\ client = "books" => file = Absent
  /\ loadPc = IF client = "crm" THEN "importing" ELSE "done"
  /\ loadTokens = Absent
  /\ IdleCalls
  /\ nextId = 1
  /\ grantPc = "idle"
  /\ grantQuery = NoQuery
  /\ exchanges = 0
  /\ grantTokens = NoResponse
  /\ grantData = Absent
  /\ refreshWrites = "none"
  /\ bootFile = file
  /\ served = FALSE

\* the process after start-up: no tool invoked, no SSE connection
Init == InitClient /\ IdleTools /\ IdleSse

\* ---- loadStoredTokens ----
\* a load that lets the read or parse error escape
LoadRead_Raises ==
  /\ client = "crm"
  /\ loadPc = "importing"
  /\ IF file.kind = "json"
       THEN loadPc' = "parsed" /\ loadTokens' = file
       ELSE loadPc' = "raised" /\ UNCHANGED loadTokens
  /\ UNCHANGED <<envVars, frontVars, tallyVars, now, memVars, file, callVars, noteVars, nextId,
                 grantVars, histVars>>


\* await fs.readFile(tokensPath) and JSON.parse: a missing or unparsable
\* file lands in the catch block, which only logs
LoadRead ==
  /\ client = "crm"
  /\ loadPc = "importing"
  /\ IF file.kind = "json"
       THEN loadPc' = "parsed" /\ loadTokens' = file
       ELSE loadPc' = "done" /\ UNCHANGED loadTokens
  /\ UNCHANGED <<envVars, frontVars, tallyVars, now, memVars, file, callVars, noteVars, nextId,
                 grantVars, histVars>>

\* this.accessToken = tokens.access_token || null;
\* if (tokens.expires_at) this.tokenExpiresAt = new Date(tokens.expires_at)
LoadAssign ==
  /\ loadPc = "parsed"
  /\ accessToken' = loadTokens.access_token
  /\ tokenFrom' = -1
  /\ IF loadTokens.expires_at # NoDate
       THEN tokenExpiresAt' = loadTokens.expires_at /\ expiresFrom' = -1
       ELSE /\ UNCHANGED tokenExpiresAt
            /\ expiresFrom' = IF tokenExpiresAt = NoDate THEN -1
                                                         ELSE expiresFrom
  /\ loadPc' = "done"
  /\ UNCHANGED <<envVars, frontVars, tallyVars, now, file, loadTokens, callVars, noteVars, nextId,
                 grantVars, histVars>>

\* ---- an API method call ----
\* get(): this.axiosInstance.get(endpoint, requestConfig) queues the
\* request interceptor
Call(c) ==
  /\ pc[c] = "idle"
  /\ pc' = [pc EXCEPT ![c] = "ensure"]
  /\ UNCHANGED <<envVars, frontVars, tallyVars, now, memVars, file, loadVars, tokens, tokenData,
                 thrown, request, result, tokenCalls, inFlight, noteVars,
                 nextId, grantVars, histVars>>

\* an ensureValidToken whose refresh posts to the token endpoint twice
EnsureValidToken_Twice(c) ==
  /\ pc[c] = "ensure"
  /\ IF TokenValid(accessToken, tokenExpiresAt, now)
       THEN /\ pc' = [pc EXCEPT ![c] = "attach"]
            /\ UNCHANGED <<thrown, caught, tokenCalls, inFlight>>
       ELSE IF RefreshTokenAvailable
         THEN /\ pc' = [pc EXCEPT ![c] = "tokenwait"]
              /\ tokenCalls' = [tokenCalls EXCEPT ![c] = @ + 2]
              /\ inFlight' = [inFlight EXCEPT ![c] = @ + 2]
              /\ UNCHANGED <<thrown, caught>>
         ELSE /\ pc' = [pc EXCEPT ![c] = "failed"]
              /\ thrown' = [thrown EXCEPT ![c] = AuthRequired]
              /\ caught' = [caught EXCEPT ![c] = OnRejected(
                   AxiosError(NoHttpResponse, ThrownMessage(AuthRequired)))]
              /\ UNCHANGED <<tokenCalls, inFlight>>
  /\ served' = TRUE
  /\ UNCHANGED <<envVars, frontVars, tallyVars, now, memVars, file, loadVars, tokens, tokenData,
                 request, result, response, got, saved, nextId, grantVars,
                 refreshWrites, bootFile>>

\* ensureValidToken up to its first await: the fast path, the
\* auth-required error, or the axios.post of refreshAccessToken
EnsureValidToken(c) ==
  /\ pc[c] = "ensure"
  /\ IF TokenValid(accessToken, tokenExpiresAt, now)
       THEN /\ pc' = [pc EXCEPT ![c] = "attach"]
            /\ UNCHANGED <<thrown, caught, tokenCalls, inFlight>>
       ELSE IF RefreshTokenAvailable
         THEN /\ pc' = [pc EXCEPT ![c] = "tokenwait"]
              /\ tokenCalls' = [tokenCalls EXCEPT ![c] = @ + 1]
              /\ inFlight' = [inFlight EXCEPT ![c] = @ + 1]
              /\ UNCHANGED <<thrown, caught>>
         ELSE /\ pc' = [pc EXCEPT ![c] = "failed"]
              /\ thrown' = [thrown EXCEPT ![c] = AuthRequired]
              /\ caught' = [caught EXCEPT ![c] = OnRejected(
                   AxiosError(NoHttpResponse, ThrownMessage(AuthRequired)))]
              /\ UNCHANGED <<tokenCalls, inFlight>>
  /\ served' = TRUE
  /\ UNCHANGED <<envVars, frontVars, tallyVars, now, memVars, file, loadVars, tokens, tokenData,
                 request, result, response, got, saved, nextId, grantVars,
                 refreshWrites, bootFile>>

\* refreshAccessToken after a 2xx answer of the token endpoint:
\* lines 144-149, up to the first await of updateEnvTokens (the Books
\* client has no updateEnvTokens and returns)
TokenResponse(c, hasToken, ttl) ==
  /\ pc[c] = "tokenwait"
  /\ nextId <= MaxResponses
  /\ tokens' = [tokens EXCEPT ![c] =
       Response(nextId, NoRefresh, IF hasToken THEN nextId ELSE NoToken, ttl)]
  /\ nextId' = nextId + 1
  /\ inFlight' = [inFlight EXCEPT ![c] = @ - 1]
  /\ accessToken' = tokens'[c].access_token
  /\ tokenExpiresAt' = ExpiryOf(now, tokens'[c].expires_in)
  /\ tokenFrom' = nextId
  /\ expiresFrom' = nextId
  /\ got' = [got EXCEPT ![c] = tokens'[c].access_token]
  /\ pc' = [pc EXCEPT ![c] = IF client = "crm" THEN "persist" ELSE "attach"]
  /\ UNCHANGED <<envVars, frontVars, tallyVars, now, file, loadVars, tokenData, thrown, request,
                 result, tokenCalls, response, caught, saved, grantVars,
                 histVars>>

\* a failed refresh that wipes the cached token before it throws
TokenFailure_Clears(c, resp) ==
  /\ pc[c] = "tokenwait"
  /\ inFlight' = [inFlight EXCEPT ![c] = @ - 1]
  /\ rejected' = [rejected EXCEPT ![c] = resp]
  /\ thrown' = [thrown EXCEPT ![c] = RefreshFailed]
  /\ pc' = [pc EXCEPT ![c] = "failed"]
  /\ accessToken' = NoToken
  /\ tokenExpiresAt' = NoDate
  /\ tokenFrom' = 0
  /\ expiresFrom' = 0
  /\ caught' = [caught EXCEPT ![c] = OnRejected(
       AxiosError(NoHttpResponse, ThrownMessage(RefreshFailed)))]
  /\ UNCHANGED <<envVars, frontVars, resourceCalls, now, file, loadVars, tokens, tokenData,
                 request, result, tokenCalls, response, got, saved, nextId,
                 grantVars, histVars>>

\* a failed refresh whose error does not stop the request
TokenFailure_Swallowed(c, resp) ==
  /\ pc[c] = "tokenwait"
  /\ inFlight' = [inFlight EXCEPT ![c] = @ - 1]
  /\ rejected' = [rejected EXCEPT ![c] = resp]
  /\ thrown' = [thrown EXCEPT ![c] = RefreshFailed]
  /\ pc' = [pc EXCEPT ![c] = "attach"]
  /\ UNCHANGED <<envVars, frontVars, resourceCalls, now, memVars, file, loadVars, tokens, tokenData,
                 request, result, tokenCalls, noteVars, nextId, grantVars,
                 histVars>>

\* refreshAccessToken when axios.post rejects, resp being error.response
\* (a non-2xx answer, or none on a network error): the catch block throws
\* `Failed to refresh access token: ${error.message}`, 401
TokenFailure(c, resp) ==
  /\ pc[c] = "tokenwait"
  /\ inFlight' = [inFlight EXCEPT ![c] = @ - 1]
  /\ rejected' = [rejected EXCEPT ![c] = resp]
  /\ thrown' = [thrown EXCEPT ![c] = RefreshFailed]
  /\ pc' = [pc EXCEPT ![c] = "failed"]
  /\ caught' = [caught EXCEPT ![c] = OnRejected(
       AxiosError(NoHttpResponse, ThrownMessage(RefreshFailed)))]
  /\ UNCHANGED <<envVars, frontVars, resourceCalls, now, memVars, file, loadVars, tokens, tokenData,
                 request, result, tokenCalls, response, got, saved, nextId,
                 grantVars, histVars>>

\* updateEnvTokens after its imports: builds tokenData and starts writeFile
UpdateEnvTokens(c) ==
  /\ pc[c] = "persist"
  /\ tokenData' = [tokenData EXCEPT ![c] =
       Record("json", refreshToken, tokens[c].access_token, tokenExpiresAt,
              tokens[c].id, expiresFrom)]
  /\ tokens' = [tokens EXCEPT ![c] = NoResponse]
  /\ pc' = [pc EXCEPT ![c] = "writing"]
  /\ UNCHANGED <<envVars, frontVars, tallyVars, now, memVars, file, loadVars, thrown, request,
                 result, tokenCalls, inFlight, noteVars, nextId, grantVars,
                 histVars>>

\* fs.writeFile settles: the file holds tokenData, or the catch block logs
WriteFile(c, ok) ==
  /\ pc[c] = "writing"
  /\ file' = IF ok THEN tokenData[c] ELSE file
  /\ tokenData' = [tokenData EXCEPT ![c] = Absent]
  /\ pc' = [pc EXCEPT ![c] = "attach"]
  /\ saved' = [saved EXCEPT ![c] = IF ok THEN "ok" ELSE "failed"]
  /\ refreshWrites' = IF ok /\ refreshWrites # "failed" THEN "ok" ELSE "failed"
  /\ UNCHANGED <<envVars, frontVars, tallyVars, now, memVars, loadVars, tokens, thrown, request,
                 result, tokenCalls, inFlight, response, caught, got, nextId,
                 grantVars, bootFile, served>>

\* request interceptor after `await this.ensureValidToken()`: sets the
\* Authorization header if this.accessToken is truthy; axios then
\* dispatches the request
Dispatch(c) ==
  /\ pc[c] = "attach"
  /\ request' = [request EXCEPT ![c] = [sent |-> TRUE, auth |-> accessToken]]
  /\ tokens' = [tokens EXCEPT ![c] = NoResponse]
  /\ pc' = [pc EXCEPT ![c] = "inflight"]
  /\ got' = [got EXCEPT ![c] = NoToken]
  /\ saved' = [saved EXCEPT ![c] = "none"]
  /\ resourceCalls' = [resourceCalls EXCEPT ![c] = @ + 1]
  /\ UNCHANGED <<envVars, frontVars, rejected, now, memVars, file, loadVars, tokenData, thrown,
                 result, tokenCalls, inFlight, response, caught, nextId,
                 grantVars, histVars>>

\* a response handler that drops the token on a 401 and asks again
Respond_RetriesOn401(c, resp) ==
  /\ pc[c] = "inflight"
  /\ response' = [response EXCEPT ![c] = resp]
  /\ caught' = [caught EXCEPT ![c] =
       IF resp # NoHttpResponse /\ Is2xx(resp.status)
         THEN MethodOutcome(client, resp.body)
         ELSE OnRejected(AxiosError(resp, TransportMessage))]
  /\ result' = [result EXCEPT ![c] =
       IF caught'[c] = NothingCaught THEN resp.body ELSE "none"]
  /\ IF resp.status = 401
       THEN /\ pc' = [pc EXCEPT ![c] = "ensure"]
            /\ accessToken' = NoToken
            /\ UNCHANGED <<tokenExpiresAt, tokenFrom, expiresFrom>>
       ELSE /\ pc' = [pc EXCEPT ![c] = "done"]
            /\ UNCHANGED memVars
  /\ UNCHANGED <<envVars, frontVars, tallyVars, now, file, loadVars, tokens,
                 tokenData, thrown, request, tokenCalls, inFlight, got, saved,
                 nextId, grantVars, histVars>>

\* the request settles.  A 2xx answer passes the response interceptor and
\* get() returns response.data to the API method; any other answer, or
\* none, goes through the rejected handler of the response interceptor
Respond(c, resp) ==
  /\ pc[c] = "inflight"
  /\ response' = [response EXCEPT ![c] = resp]
  /\ caught' = [caught EXCEPT ![c] =
       IF resp # NoHttpResponse /\ Is2xx(resp.status)
         THEN MethodOutcome(client, resp.body)
         ELSE OnRejected(AxiosError(resp, TransportMessage))]
  /\ result' = [result EXCEPT ![c] =
       IF caught'[c] = NothingCaught THEN resp.body ELSE "none"]
  /\ pc' = [pc EXCEPT ![c] = "done"]
  /\ UNCHANGED <<envVars, frontVars, tallyVars, now, memVars, file, loadVars, tokens, tokenData,
                 thrown, request, tokenCalls, inFlight, got, saved, nextId,
                 grantVars, histVars>>

\* the caller has its result or its error; the slot serves the next call
Return(c) ==
  /\ pc[c] \in {"done", "failed"}
  /\ pc' = [pc EXCEPT ![c] = "idle"]
  /\ thrown' = [thrown EXCEPT ![c] = NoError]
  /\ request' = [request EXCEPT ![c] = NoRequest]
  /\ result' = [result EXCEPT ![c] = "none"]
  /\ tokenCalls' = [tokenCalls EXCEPT ![c] = 0]
  /\ response' = [response EXCEPT ![c] = NoHttpResponse]
  /\ caught' = [caught EXCEPT ![c] = NothingCaught]
  /\ got' = [got EXCEPT ![c] = NoToken]
  /\ saved' = [saved EXCEPT ![c] = "none"]
  /\ rejected' = [rejected EXCEPT ![c] = NoHttpResponse]
  /\ resourceCalls' = [resourceCalls EXCEPT ![c] = 0]
  /\ UNCHANGED <<envVars, frontVars, now, memVars, file, loadVars, tokens, tokenData,
                 inFlight, nextId, grantVars, histVars>>

\* time passes
Tick ==
  /\ now + TickStep <= MaxTime
  /\ now' = now + TickStep
  /\ UNCHANGED <<envVars, frontVars, tallyVars, memVars, file, loadVars, callVars, noteVars,
                 nextId, grantVars, histVars>>

\* ---- GET /oauth/callback and OAuthHandler ----
\* a handler that exchanges the code although the callback reports an error
Callback_IgnoresError(hasError, hasCode) ==
  /\ client = "crm"
  /\ grantPc = "idle"
  /\ grantQuery' = Query(hasError, hasCode)
  /\ IF ~hasCode
       THEN grantPc' = "status400" /\ exchanges' = 0
       ELSE grantPc' = "exchanging" /\ exchanges' = 1
  /\ UNCHANGED <<envVars, frontVars, tallyVars, now, memVars, file, loadVars, callVars, noteVars,
                 histVars, nextId, grantTokens, grantData>>

\* the handler up to its first await: an error parameter or a missing code
\* answers 400, otherwise exchangeCodeForTokens posts the code
Callback(hasError, hasCode) ==
  /\ client = "crm"
  /\ grantPc = "idle"
  /\ grantQuery' = Query(hasError, hasCode)
  /\ IF hasError \/ ~hasCode
       THEN grantPc' = "status400" /\ exchanges' = 0
       ELSE grantPc' = "exchanging" /\ exchanges' = 1
  /\ UNCHANGED <<envVars, frontVars, tallyVars, now, memVars, file, loadVars, callVars, noteVars,
                 histVars, nextId, grantTokens, grantData>>

\* exchangeCodeForTokens: the token endpoint answers 2xx, with a grant or
\* with a body that has no token fields; response.data is returned as is
ExchangeResponse(hasTokens, ttl) ==
  /\ grantPc = "exchanging"
  /\ IF hasTokens
       THEN /\ nextId <= MaxResponses
            /\ grantTokens' = Response(nextId, GrantRefreshToken, nextId, ttl)
            /\ nextId' = nextId + 1
       ELSE /\ grantTokens' = NoResponse
            /\ UNCHANGED nextId
  /\ grantPc' = "saving"
  /\ UNCHANGED <<envVars, frontVars, tallyVars, now, memVars, file, loadVars, callVars, noteVars,
                 histVars, grantQuery, exchanges, grantData>>

\* exchangeCodeForTokens: axios.post rejects; the catch block throws and
\* the handler answers 500
ExchangeFailure ==
  /\ grantPc = "exchanging"
  /\ grantPc' = "status500"
  /\ UNCHANGED <<envVars, frontVars, tallyVars, now, memVars, file, loadVars, callVars, noteVars,
                 histVars, nextId, grantQuery, exchanges, grantTokens,
                 grantData>>

\* saveTokensToEnv after its imports: builds tokenData, starts writeFile;
\* without expires_in the date is invalid, toISOString throws inside the
\* try block and the handler answers 500
SaveTokensToEnv ==
  /\ grantPc = "saving"
  /\ IF grantTokens.expires_in = NoTtl
       THEN grantPc' = "status500" /\ UNCHANGED grantData
       ELSE /\ grantData' = Record("json", grantTokens.refresh_token,
                                   grantTokens.access_token,
                                   GrantExpiryOf(now, grantTokens.expires_in),
                                   grantTokens.id, grantTokens.id)
            /\ grantPc' = "writing"
  /\ UNCHANGED <<envVars, frontVars, tallyVars, now, memVars, file, loadVars, callVars, noteVars,
                 histVars, nextId, grantQuery, exchanges, grantTokens>>

\* fs.writeFile settles: success page, or the catch block throws and the
\* handler answers 500
GrantWriteFile(ok) ==
  /\ grantPc = "writing"
  /\ file' = IF ok THEN grantData ELSE file
  /\ grantPc' = IF ok THEN "success" ELSE "status500"
  /\ UNCHANGED <<envVars, frontVars, tallyVars, now, memVars, loadVars, callVars, noteVars,
                 histVars, nextId, grantQuery, exchanges, grantTokens,
                 grantData>>

\* the response is sent; the handler serves the next callback
GrantDone ==
  /\ grantPc \in {"status400", "status500", "success"}
  /\ grantPc' = "idle"
  /\ grantQuery' = NoQuery
  /\ exchanges' = 0
  /\ grantTokens' = NoResponse
  /\ grantData' = Absent
  /\ UNCHANGED <<envVars, frontVars, tallyVars, now, memVars, file, loadVars, callVars, noteVars,
                 histVars, nextId>>

\* the process is restarted: `new ZohoCRMClient()` runs again, the
\* environment and tokens.json are what they were
Restart ==
  /\ client = "crm"
  /\ loadPc = "done"
  /\ accessToken' = NoToken
  /\ tokenExpiresAt' = NoDate
  /\ tokenFrom' = 0
  /\ expiresFrom' = 0
  /\ loadPc' = "importing"
  /\ loadTokens' = Absent
  /\ pc' = [c \in Calls |-> "idle"]
  /\ tokens' = [c \in Calls |-> NoResponse]
  /\ tokenData' = [c \in Calls |-> Absent]
  /\ thrown' = [c \in Calls |-> NoError]
  /\ request' = [c \in Calls |-> NoRequest]
  /\ result' = [c \in Calls |-> "none"]
  /\ tokenCalls' = [c \in Calls |-> 0]
  /\ inFlight' = [c \in Calls |-> 0]
  /\ response' = [c \in Calls |-> NoHttpResponse]
  /\ caught' = [c \in Calls |-> NothingCaught]
  /\ got' = [c \in Calls |-> NoToken]
  /\ saved' = [c \in Calls |-> "none"]
  /\ rejected' = [c \in Calls |-> NoHttpResponse]
  /\ resourceCalls' = [c \in Calls |-> 0]
  /\ refreshWrites' = "none"
  /\ bootFile' = file
  /\ served' = FALSE
  /\ grantPc' = "idle"
  /\ grantQuery' = NoQuery
  /\ exchanges' = 0
  /\ grantTokens' = NoResponse
  /\ grantData' = Absent
  /\ UNCHANGED <<envVars, frontVars, now, file, nextId>>

\* one API method call at a time, of either client, from construction on
Next ==
  \/ LoadRead
  \/ LoadAssign
  \/ \E c \in SerialCalls : Call(c)
  \/ \E c \in SerialCalls : EnsureValidToken(c)
  \/ \E c \in SerialCalls, hasToken \in BOOLEAN, ttl \in TTLs :
       TokenResponse(c, hasToken, ttl)
  \/ \E c \in SerialCalls, resp \in TokenRejections : TokenFailure(c, resp)
  \/ \E c \in SerialCalls : UpdateEnvTokens(c)
  \/ \E c \in SerialCalls, ok \in BOOLEAN : WriteFile(c, ok)
  \/ \E c \in SerialCalls : Dispatch(c)
  \/ \E c \in SerialCalls, resp \in HttpResponses \cup {NoHttpResponse} :
       Respond(c, resp)
  \/ \E c \in SerialCalls : Return(c)
  \/ Tick

Spec == Init /\ [][Next]_vars

\* MaxCalls API method calls made concurrently on one client instance, each
\* followed until its resource request is dispatched, the race being over
\* before the clock moves; the token endpoint answers with well-formed
\* grants or fails
NextRace ==
  \/ LoadRead
  \/ LoadAssign
  \/ \E c \in Calls : Call(c)
  \/ \E c \in Calls : EnsureValidToken(c)
  \/ \E c \in Calls, ttl \in TTLs : TokenResponse(c, TRUE, ttl)
  \/ \E c \in Calls : TokenFailure(c, NoHttpResponse)
  \/ \E c \in Calls : UpdateEnvTokens(c)
  \/ \E c \in Calls, ok \in BOOLEAN : WriteFile(c, ok)
  \/ \E c \in Calls : Dispatch(c)

SpecRace == Init /\ [][NextRace]_vars

\* the CRM process over its life: the authorization-code grant of the
\* callback route, restarts, and one API method call at a time
InitBoot == Init /\ client = "crm"

NextBoot ==
  \/ LoadRead
  \/ LoadAssign
  \/ \E c \in SerialCalls : Call(c)
  \/ \E c \in SerialCalls : EnsureValidToken(c)
  \/ \E c \in SerialCalls, hasToken \in BOOLEAN, ttl \in TTLs :
       TokenResponse(c, hasToken, ttl)
  \/ \E c \in SerialCalls : TokenFailure(c, NoHttpResponse)
  \/ \E c \in SerialCalls : UpdateEnvTokens(c)
  \/ \E c \in SerialCalls, ok \in BOOLEAN : WriteFile(c, ok)
  \/ \E c \in SerialCalls : Dispatch(c)
  \/ \E c \in SerialCalls, resp \in BootResponses : Respond(c, resp)
  \/ \E c \in SerialCalls : Return(c)
  \/ Tick
  \/ \E hasError \in BOOLEAN, hasCode \in BOOLEAN : Callback(hasError, hasCode)
  \/ \E hasTokens \in BOOLEAN, ttl \in TTLs : ExchangeResponse(hasTokens, ttl)
  \/ ExchangeFailure
  \/ SaveTokensToEnv
  \/ \E ok \in BOOLEAN : GrantWriteFile(ok)
  \/ GrantDone
  \/ Restart

SpecBoot == InitBoot /\ [][NextBoot]_vars

\* the CRM process serving authorization callbacks only: the grant flow,
\* the constructor's load and restarts
NextGrant ==
  \/ LoadRead
  \/ LoadAssign
  \/ Tick
  \/ \E hasError \in BOOLEAN, hasCode \in BOOLEAN : Callback(hasError, hasCode)
  \/ \E hasTokens \in BOOLEAN, ttl \in TTLs : ExchangeResponse(hasTokens, ttl)
  \/ ExchangeFailure
  \/ SaveTokensToEnv
  \/ \E ok \in BOOLEAN : GrantWriteFile(ok)
  \/ GrantDone
  \/ Restart

SpecGrant == InitBoot /\ [][NextGrant]_vars

\* one API method call at a time, with what the process itself guarantees
\* to happen: its own steps run, file operations settle, and the resource
\* request settles because the axios instance is created with
\* timeout: 30000.  Nothing makes the token endpoint answer: the global
\* axios.post of refreshAccessToken carries no timeout
OwnStep ==
  \/ LoadRead
  \/ LoadAssign
  \/ \E c \in SerialCalls : EnsureValidToken(c)
  \/ \E c \in SerialCalls : UpdateEnvTokens(c)
  \/ \E c \in SerialCalls, ok \in BOOLEAN : WriteFile(c, ok)
  \/ \E c \in SerialCalls : Dispatch(c)
  \/ \E c \in SerialCalls, resp \in HttpResponses \cup {NoHttpResponse} :
       Respond(c, resp)

SpecLive == Init /\ [][Next]_vars /\ WF_vars(OwnStep)

\* ---- executing a tool ----
\* the next invocation arrives
Invoke(inv) ==
  /\ invocation.state = "done"
  /\ invocation' = inv
  /\ outgoing' = NoOutgoing
  /\ UNCHANGED <<envVars, sseVars, tallyVars, now, memVars, file, loadVars,
                 callVars, noteVars, nextId, grantVars, histVars>>

\* the tool's handler runs up to the get/post/put of the API method it
\* calls; the request then goes through the pipeline of the client
Execute ==
  /\ invocation.state = "pending"
  /\ outgoing' = RequestOf(client, invocation)
  /\ invocation' = [invocation EXCEPT !.state = "done"]
  /\ UNCHANGED <<envVars, sseVars, tallyVars, now, memVars, file, loadVars,
                 callVars, noteVars, nextId, grantVars, histVars>>

\* a process executing tool invocations one after another, the first one
\* drawn from the arguments followed
InitTools ==
  /\ InitClient
  /\ refreshToken # NoRefresh
  /\ file = Absent
  /\ invocation \in Invocations(client)
  /\ outgoing = NoOutgoing
  /\ IdleSse

NextTools ==
  \/ Execute
  \/ \E inv \in Invocations(client) : Invoke(inv)

SpecTools == InitTools /\ [][NextTools]_vars

\* ---- GET /sse and POST /sse of the Books server ----
\* GET /sse up to its await: the headers are written and the new
\* transport becomes the active one
SseGet(k) ==
  /\ client = "books"
  /\ sse[k] = "idle"
  /\ activeTransport' = k
  /\ sse' = [sse EXCEPT ![k] = "connecting"]
  /\ UNCHANGED <<envVars, toolVars, tallyVars, handledBy, now, memVars, file,
                 loadVars, callVars, noteVars, nextId, grantVars, histVars>>

\* mcpServer.connect resolved: the close and error listeners are installed
SseConnected(k) ==
  /\ sse[k] = "connecting"
  /\ sse' = [sse EXCEPT ![k] = "open"]
  /\ UNCHANGED <<envVars, toolVars, tallyVars, activeTransport, handledBy,
                 now, memVars, file, loadVars, callVars, noteVars, nextId,
                 grantVars, histVars>>

\* mcpServer.connect rejected: the catch block clears activeTransport and
\* ends the response
SseConnectFailed(k) ==
  /\ sse[k] = "connecting"
  /\ activeTransport' = NoTransport
  /\ sse' = [sse EXCEPT ![k] = "closed"]
  /\ UNCHANGED <<envVars, toolVars, tallyVars, handledBy, now, memVars, file,
                 loadVars, callVars, noteVars, nextId, grantVars, histVars>>

\* the client of an established connection goes away: the 'close' (or
\* 'error') listener of its request clears activeTransport
SseClose(k) ==
  /\ sse[k] = "open"
  /\ activeTransport' = NoTransport
  /\ sse' = [sse EXCEPT ![k] = "closed"]
  /\ UNCHANGED <<envVars, toolVars, tallyVars, handledBy, now, memVars, file,
                 loadVars, callVars, noteVars, nextId, grantVars, histVars>>

\* POST /sse: the active transport handles the message, or a transport
\* made for this request when there is none
SsePost ==
  /\ client = "books"
  /\ handledBy' = IF activeTransport = NoTransport THEN OnDemand
                                                   ELSE activeTransport
  /\ UNCHANGED <<envVars, toolVars, tallyVars, activeTransport, sse, now,
                 memVars, file, loadVars, callVars, noteVars, nextId,
                 grantVars, histVars>>

\* the Books server with up to MaxConnections SSE clients coming and going
InitSse == Init /\ client = "books"

NextSse ==
  \/ \E k \in Connections : SseGet(k)
  \/ \E k \in Connections : SseConnected(k)
  \/ \E k \in Connections : SseConnectFailed(k)
  \/ \E k \in Connections : SseClose(k)
  \/ SsePost

SpecSse == InitSse /\ [][NextSse]_vars

\* ======================= the claims =======================

\* the step of call c in which ensureValidToken runs
EnsureStep(c) == pc[c] = "ensure" /\ pc'[c] \notin {"ensure", "idle"}

\* C1: ensureValidToken called while the access token is present, the
\* expiry is present and now < expiry returns without a token-endpoint
\* request and leaves the in-memory access token and expiry unchanged
C1_FastPathNoRefresh ==
  [][\A c \in Calls :
       (EnsureStep(c) /\ accessToken # NoToken /\ tokenExpiresAt # NoDate
          /\ now < tokenExpiresAt)
       => /\ pc'[c] = "attach"
          /\ thrown'[c] = NoError
          /\ tokenCalls' = tokenCalls
          /\ inFlight' = inFlight
          /\ accessToken' = accessToken
          /\ tokenExpiresAt' = tokenExpiresAt]_vars

C1_Witness ==
  \E c \in Calls :
    pc[c] = "attach" /\ tokenCalls[c] = 0 /\ accessToken # NoToken

\* C2: ensureValidToken called with a stale token and a configured refresh
\* token issues exactly one token-endpoint request in that call; when the
\* response is processed the access token becomes the response's token and
\* the expiry becomes (processing time) + (ttl - 300)
C2_StaleRefreshesOnce ==
  [][\A c \in Calls :
       /\ (EnsureStep(c) /\ refreshToken # NoRefresh
             /\ ~(accessToken # NoToken /\ tokenExpiresAt # NoDate
                    /\ now < tokenExpiresAt))
          => (pc'[c] = "tokenwait" /\ tokenCalls[c] = 0
                /\ tokenCalls'[c] = 1 /\ inFlight'[c] = 1)
       /\ tokenCalls'[c] <= 1
       /\ (pc[c] = "tokenwait" /\ pc'[c] \in {"persist", "attach"})
          => (/\ accessToken' = tokens'[c].access_token
              /\ tokenExpiresAt' = now + (tokens'[c].expires_in - 300)
              /\ tokenCalls'[c] = 1 /\ inFlight'[c] = 0)]_vars

C2_Witness ==
  \E c \in Calls :
    /\ tokens[c].id # 0 /\ tokenCalls[c] = 1
    /\ accessToken = tokens[c].access_token /\ accessToken # NoToken
    /\ tokenExpiresAt = now + (tokens[c].expires_in - 300)

\* C3: in the CRM client, whenever no refresh token is available,
\* ensureValidToken fails with the auth-required error (401) and issues no
\* network request, whatever the cached access token and expiry are
C3_NoRefreshTokenAlwaysFails ==
  [][\A c \in SerialCalls :
       (EnsureStep(c) /\ refreshToken = NoRefresh)
       => (pc'[c] = "failed" /\ thrown'[c] = AuthRequired
             /\ tokenCalls'[c] = 0 /\ inFlight'[c] = 0)]_vars

\* C4: when the token-endpoint request of a refresh fails, ensureValidToken
\* fails with the refresh-failed error and the call has changed neither the
\* in-memory access token, nor the in-memory expiry, nor the credential file
C4_RefreshFailureKeepsState ==
  [][\A c \in Calls :
       /\ (pc[c] = "tokenwait" /\ inFlight'[c] < inFlight[c]
             /\ nextId' = nextId)
          => (/\ pc'[c] = "failed"
              /\ thrown'[c] = RefreshFailed
              /\ accessToken' = accessToken
              /\ tokenExpiresAt' = tokenExpiresAt
              /\ file' = file)
       /\ (pc[c] = "ensure" /\ pc'[c] = "tokenwait")
          => (/\ accessToken' = accessToken
              /\ tokenExpiresAt' = tokenExpiresAt
              /\ file' = file)]_vars

C4_Witness ==
  \E c \in Calls :
    /\ client = "crm" /\ thrown[c] = RefreshFailed
    /\ accessToken # NoToken /\ file.kind = "json" /\ file.tok_src # 0

\* C5: every resource request dispatched carries an Authorization header
\* 'Zoho-oauthtoken <t>' with t a non-empty access token
C5_EveryRequestAuthorized ==
  \A c \in Calls : request[c].sent => request[c].auth # NoToken

\* C6: when ensureValidToken fails during an API method call, the call
\* fails and no resource request is dispatched for it
C6_AuthFailureSendsNothing ==
  \A c \in Calls :
    thrown[c] # NoError
    => (pc[c] = "failed" /\ ~request[c].sent /\ result[c] = "none")

C6_Witness ==
  \E c \in Calls :
    /\ pc[c] = "failed" /\ thrown[c].kind \in {"AuthRequired", "RefreshFailed"}
    /\ ~request[c].sent

\* the number of token-endpoint requests in flight
RECURSIVE SumInFlight(_)
SumInFlight(S) ==
  IF S = {} THEN 0
  ELSE LET c == CHOOSE x \in S : TRUE IN inFlight[c] + SumInFlight(S \ {c})

\* C7 as stated: at most one token-endpoint refresh request of the client
\* instance is in flight at any moment
C7_SingleRefreshInFlight == SumInFlight(Calls) <= 1

\* C7 amended: each API method call has at most one token-endpoint request
\* in flight, so the instance has at most as many in flight as it has
\* calls waiting for a refresh
C7_OneRefreshPerCall ==
  /\ \A c \in Calls : inFlight[c] = IF pc[c] = "tokenwait" THEN 1 ELSE 0
  /\ SumInFlight(Calls) = Cardinality({c \in Calls : pc[c] = "tokenwait"})

C7_Witness ==
  \E c1, c2 \in Calls : c1 # c2 /\ inFlight[c1] = 1 /\ inFlight[c2] = 1

\* C8: every record a refresh writes to the credential file has its
\* access_token and its expires_at from the same token-endpoint response
C8_WrittenRecordSelfConsistent ==
  (file.kind = "json" /\ file.tok_src # 0) => file.exp_src = file.tok_src

\* C9: the in-memory access token and expiry are a pair taken from one
\* stored record or from one token response
C9_MemoryPairFromOneSource == tokenFrom = expiresFrom

\* C10: a client initialised from a credential record the grant flow wrote
\* holds that record's refresh token: once the stored access token has
\* expired, ensureValidToken performs a refresh with it
C10_ReinitialisedClientRefreshes ==
  [][\A c \in SerialCalls :
       (/\ EnsureStep(c)
        /\ loadPc = "done" /\ loadTokens.kind = "json"
        /\ loadTokens.refresh_token = GrantRefreshToken
        /\ ~(accessToken # NoToken /\ tokenExpiresAt # NoDate
               /\ now < tokenExpiresAt))
       => (/\ pc'[c] = "tokenwait"
           /\ refreshToken = loadTokens.refresh_token)]_vars

\* C11: handling a callback issues a code-exchange request only when the
\* callback has no error parameter and has a code, and at most one per
\* callback; the handler writes the credential file only after the exchange
\* returned tokens; a callback with an error or without a code, a failed
\* exchange and a failed write are answered with an error status and the
\* handler leaves the credential file as it was
C11_CallbackExchangeAndWrite ==
  [][/\ exchanges' <= 1
     /\ (exchanges' > exchanges)
        => (grantPc = "idle" /\ ~grantQuery'.error /\ grantQuery'.code)
     /\ (grantPc = "idle" /\ grantPc' # "idle"
           /\ (grantQuery'.error \/ ~grantQuery'.code))
        => (grantPc' = "status400" /\ exchanges' = 0)
     /\ (grantPc = "exchanging" /\ grantPc' \notin {"exchanging", "idle"})
        => (grantPc' = "saving" \/ grantPc' = "status500")
     /\ (grantPc = "saving" /\ grantPc' \notin {"saving", "idle"})
        => IF grantTokens.access_token # NoToken
             THEN grantPc' = "writing"
             ELSE grantPc' = "status500"
     /\ (grantPc = "writing" /\ grantPc' \notin {"writing", "idle"})
        => \/ /\ grantPc' = "success"
              /\ file' = grantData
              /\ exchanges = 1 /\ grantTokens.access_token # NoToken
           \/ grantPc' = "status500"
     /\ (grantPc' # grantPc /\ ~(grantPc = "writing" /\ grantPc' = "success"))
        => file' = file]_vars

C11_Witness ==
  /\ grantPc = "success" /\ exchanges = 1
  /\ file = grantData /\ file.access_token = grantTokens.access_token

\* C12: in every state of the CRM client with no refresh and no
\* credential-file write in progress, reached after successful refreshes
\* whose file writes all succeeded, the credential file's access_token and
\* expires_at equal the in-memory access token and expiry (checked where
\* the constructor's load found no record, so that only refreshes have
\* assigned the in-memory pair)
C12_FileMatchesMemory ==
  (/\ client = "crm"
   /\ loadPc = "done" /\ loadTokens.kind # "json"
   /\ refreshWrites = "ok"
   /\ file.kind = "json" /\ file.access_token # NoToken
   /\ \A c \in Calls : pc[c] \notin {"tokenwait", "persist", "writing"})
  => (file.access_token = accessToken /\ file.expires_at = tokenExpiresAt)

\* C13: when the credential-file write of a refresh fails in the CRM
\* client, ensureValidToken still succeeds and the API request that
\* triggered the refresh is sent with the access token the refresh obtained
C13_WriteFailureKeepsNewToken ==
  [][\A c \in Calls :
       /\ (client = "crm" /\ saved[c] # "failed" /\ saved'[c] = "failed")
          => (pc'[c] = "attach" /\ thrown'[c] = NoError)
       /\ (client = "crm" /\ pc[c] = "attach" /\ pc'[c] = "inflight"
             /\ saved[c] = "failed" /\ got[c] # NoToken)
          => (request'[c].sent /\ request'[c].auth = got[c])]_vars

\* C14: loading a credential record that a refresh or the grant flow saved
\* yields the saved refresh_token, access_token and expires_at: after the
\* load the client holds each of the three as the record has it
C14_SaveLoadRoundTrip ==
  [][(loadPc = "parsed" /\ loadPc' = "done" /\ loadTokens.tok_src # 0)
     => /\ accessToken' = loadTokens.access_token
        /\ tokenExpiresAt' = loadTokens.expires_at
        /\ refreshToken' = loadTokens.refresh_token]_vars

\* C15: the load of the stored credentials never raises: when tokens.json
\* is absent or cannot be parsed the load ends normally, leaves the
\* in-memory access token and expiry as they are (absent, unless a refresh
\* has set them meanwhile) and disturbs no API call
C15_LoadNeverRaises ==
  [][/\ loadPc' \in {"importing", "parsed", "done"}
     /\ (loadPc = "importing" /\ loadPc' # loadPc
           /\ file.kind \in {"absent", "malformed"})
        => /\ loadPc' = "done"
           /\ accessToken' = accessToken
           /\ tokenExpiresAt' = tokenExpiresAt
           /\ (tokenFrom = 0 => accessToken' = NoToken)
           /\ (expiresFrom = 0 => tokenExpiresAt' = NoDate)
           /\ pc' = pc /\ thrown' = thrown /\ caught' = caught]_vars

C15_Witness ==
  /\ bootFile.kind = "malformed"
  /\ loadPc = "done" /\ loadTokens.kind = "absent"
  /\ \E c \in Calls : pc[c] = "done" /\ result[c] = "data"

\* C16: when the CRM client was constructed while tokens.json held an
\* access token whose expires_at is still in the future, the first
\* ensureValidToken after construction takes the fast path with that
\* stored token and issues no token-endpoint request
C16_FirstCallUsesStoredToken ==
  [][\A c \in SerialCalls :
       (/\ EnsureStep(c) /\ ~served
        /\ bootFile.kind = "json" /\ bootFile.access_token # NoToken
        /\ bootFile.expires_at # NoDate /\ now < bootFile.expires_at)
       => (/\ pc'[c] = "attach"
           /\ tokenCalls'[c] = 0
           /\ accessToken' = bootFile.access_token)]_vars

\* C17: every expiry computed from a token grant, by a refresh (held in
\* memory and then written to the file) or by the grant flow (written to
\* the file), is the time of the computation plus the declared expires_in
\* minus the 300-second buffer
C17_ExpiryHasBuffer ==
  [][/\ \A c \in SerialCalls :
          (pc[c] = "tokenwait" /\ tokens'[c] # tokens[c])
          => tokenExpiresAt' = now + tokens'[c].expires_in - 300
     /\ \A c \in SerialCalls :
          (pc[c] = "persist" /\ pc'[c] = "writing")
          => tokenData'[c].expires_at = tokenExpiresAt
     /\ (grantPc = "saving" /\ grantPc' = "writing")
        => grantData'.expires_at = now + grantTokens.expires_in - 300]_vars

\* C18: a non-2xx resource response with status s makes the API method
\* fail with a ZohoApiClientError of status s whose message is the
\* provider's message when the body has one, else 'HTTP s error'; no
\* response at all makes it fail with a ZohoApiClientError of status 500
\* carrying the transport message; no other kind of error reaches the
\* caller
C18_ErrorsAreUniform ==
  \A c \in Calls :
    /\ caught[c].kind \in {"none", "ZohoApiClientError"}
    /\ (pc[c] = "done" /\ response[c] # NoHttpResponse
          /\ ~Is2xx(response[c].status))
       => caught[c] = [kind |-> "ZohoApiClientError",
                       status |-> response[c].status,
                       message |-> IF response[c].body = "message"
                                     THEN ProviderMessage
                                     ELSE HttpMessage(response[c].status)]
    /\ (pc[c] = "done" /\ response[c] = NoHttpResponse)
       => caught[c] = [kind |-> "ZohoApiClientError", status |-> 500,
                       message |-> TransportMessage]

\* C19: for every 2xx resource response, whatever its body, the API method
\* returns the parsed body to its caller and raises no error
C19_SuccessReturnsBody ==
  \A c \in Calls :
    (pc[c] = "done" /\ response[c] # NoHttpResponse
       /\ Is2xx(response[c].status))
    => (caught[c] = NothingCaught /\ result[c] = response[c].body)

\* C20: an error raised by ensureValidToken reaches the caller of the API
\* method with the status code and the message it was raised with
C20_AuthErrorReachesCallerUnchanged ==
  \A c \in Calls :
    thrown[c] # NoError
    => /\ caught[c].kind = "ZohoApiClientError"
       /\ caught[c].status = thrown[c].status
       /\ caught[c].message = ThrownMessage(thrown[c])
\* C21: when the token endpoint rejects the refresh with HTTP status s
\* and a provider message, the refresh-failed error the call throws carries
\* s as its status and the provider's message
C21_RefreshErrorCarriesProviderStatus ==
  \A c \in Calls :
    (thrown[c].kind = "RefreshFailed" /\ rejected[c] # NoHttpResponse)
    => /\ thrown[c].status = rejected[c].status
       /\ RefreshFailedMessage(AxiosError(rejected[c],
                                          AxiosMessage(rejected[c])))
            = ProviderMessage

\* C22: every API method call eventually completes with a result or an
\* error, even if the provider never answers
C22_EveryCallCompletes ==
  \A c \in SerialCalls : (pc[c] = "ensure") ~> (pc[c] \in {"done", "failed"})

\* C23: on the fast path the access token, the expiry and the credential
\* file are unchanged whatever the resource response is, the call issues
\* one resource request at most and no token-endpoint request, and the
\* response ends the call
C23_FastPathFrame ==
  [][\A c \in Calls :
       (pc[c] \in {"attach", "inflight"} /\ tokenCalls[c] = 0
          /\ pc'[c] # pc[c])
       => /\ accessToken' = accessToken
          /\ tokenExpiresAt' = tokenExpiresAt
          /\ file' = file
          /\ tokenCalls'[c] = 0
          /\ inFlight'[c] = 0
          /\ resourceCalls'[c] <= 1
          /\ (pc[c] = "inflight" => pc'[c] = "done")]_vars

C23_Witness ==
  \E c \in Calls :
    /\ pc[c] = "done" /\ response[c].status = 401
    /\ tokenCalls[c] = 0 /\ resourceCalls[c] = 1
    /\ accessToken # NoToken /\ file.kind = "json"

\* C28: a refresh never changes the stored refresh token: the
\* refresh_token its write puts in the credential file equals the
\* refresh_token the file held before
C28_RefreshKeepsStoredRefreshToken ==
  [][\A c \in Calls :
       (pc[c] = "writing" /\ pc'[c] = "attach" /\ file' # file
          /\ file.kind = "json" /\ file.refresh_token # NoRefresh)
       => file'.refresh_token = file.refresh_token]_vars

\* the invocation has been executed and its API method has built a request
Sent == invocation.state = "done" /\ outgoing # NoOutgoing

\* the names under which the paged operations are invoked
PagedOperations == ListTools \cup {"searchRecords"}

\* C24: a list operation called without page and per_page sends page=1 and
\* per_page=25, and searchRecords called with a per_page above 200 sends
\* per_page=200
C24_PagingDefaultsAndClamp ==
  Sent =>
    /\ (/\ invocation.name \in PagedOperations
        /\ "page" \notin DOMAIN invocation.args
        /\ "per_page" \notin DOMAIN invocation.args)
       => (outgoing.params.page = 1 /\ outgoing.params.per_page = 25)
    /\ (/\ invocation.name = "searchRecords"
        /\ "per_page" \in DOMAIN invocation.args
        /\ invocation.args.per_page > 200)
       => outgoing.params.per_page = 200

C24_Witness ==
  /\ Sent
  /\ invocation.name = "searchRecords"
  /\ "page" \notin DOMAIN invocation.args
  /\ "per_page" \in DOMAIN invocation.args
  /\ invocation.args.per_page = 500
  /\ outgoing.params.page = 1
  /\ outgoing.params.per_page = 200

\* the upper-case form of each lower-case letter of 'descending'
UpperOf ==
  ("c" :> "C") @@ ("d" :> "D") @@ ("e" :> "E") @@ ("g" :> "G") @@
  ("i" :> "I") @@ ("n" :> "N") @@ ("s" :> "S")
\* text equals word when the case of the letters is ignored
SameIgnoringCase(text, word) ==
  /\ Len(text) = Len(word)
  /\ \A i \in 1..Len(word) : text[i] = word[i] \/ text[i] = UpperOf[word[i]]

C26_CrmSendsOnlyGet ==
  (client = "crm" /\ outgoing # NoOutgoing) => outgoing.method = "GET"

C26_Witness ==
  /\ client = "crm"
  /\ Sent
  /\ invocation.via = "tool"
  /\ invocation.name = "get_record"
  /\ outgoing.method = "GET"
  /\ outgoing.endpoint = <<"Leads", "r1">>

\* C27: every resource request of the Books client, whatever the method
\* and the arguments, carries organization_id equal to the configured
\* organization id
C27_BooksRequestsCarryOrganization ==
  (client = "books" /\ outgoing # NoOutgoing)
  => /\ "organization_id" \in DOMAIN outgoing.params
     /\ outgoing.params.organization_id = OrganizationId

C27_Witness ==
  /\ client = "books"
  /\ Sent
  /\ outgoing.method = "PUT"
  /\ "organization_id" \in DOMAIN invocation.args
  /\ invocation.args.organization_id = OtherOrganization
  /\ outgoing.params.organization_id = OrganizationId

\* C29: a Books list tool called with page_size = n sends per_page = n
C29_PageSizeTakesEffect ==
  (/\ Sent
   /\ invocation.name \in ListTools
   /\ "page_size" \in DOMAIN invocation.args)
  => outgoing.params.per_page = invocation.args.page_size

\* the SSE connections opened by GET /sse that are still open
OpenConnections == {k \in Connections : sse[k] \in {"connecting", "open"}}

\* C30: while an SSE connection opened by GET /sse is still open,
\* activeTransport is the transport of an open connection
C30_ActiveTransportIsOpen ==
  OpenConnections # {} => activeTransport \in OpenConnections

====
